---- MODULE Spec2Model ----
(***************************************************************************)
(* A model of file_finder.py: find_files (the scanner),                    *)
(* get_user_selected_extensions (the selector), copy_files (the copier)    *)
(* and the __main__ block (the driver).                                    *)
(*                                                                         *)
(* Strings are sequences of one-character strings.  A dict is a sequence   *)
(* of [ext, file_list] records in insertion order, as Python dicts keep    *)
(* it.  Three specifications share the variables:                          *)
(*   Spec      the driver, from the scan to the exit status;               *)
(*   SpecCopy  copy_files called on any scan result with any selection;    *)
(*   SpecScan  find_files on any directory tree.                           *)
(***************************************************************************)
EXTENDS Integers, Sequences, FiniteSets, TLC

VARIABLES
    pc,                   \* position of the program
    root_exists,          \* whether root_folder can be listed
    tree,                 \* what os.walk would yield for an accessible root
    exclude_substrings,   \* --exclude
    line,                 \* the line input() returns
    files,                \* find_files' result
    selected_extensions,  \* get_user_selected_extensions' result
    stats,                \* copy_files: stats
    total_files,          \* copy_files: the progress denominator
    copied_files,         \* copy_files: the progress counter
    ei,                   \* copy_files: position in files.items()
    fi,                   \* copy_files: position in file_list
    destination_path,     \* copy_files: destination name of the current file
    clock,                \* int(time.time())
    dest_exists,          \* whether destination_folder exists
    dest,                 \* destination_folder: set of [name, content]
    log,                  \* one record per copy attempt, oldest first
    logged,               \* the driver's last logging.error / info message
    exit_status           \* -1 while running, then the process's status

vars == <<pc, root_exists, tree, exclude_substrings, line, files,
          selected_extensions, stats, total_files, copied_files, ei, fi,
          destination_path, clock, dest_exists, dest, log, logged,
          exit_status>>

(***************************************************************************)
(* Bounds                                                                  *)
(***************************************************************************)
MaxNameLen == 3     \* longest file name of SpecScan
MaxScanFiles == 2   \* most files in a tree of SpecScan
MaxCopyFiles == 3   \* most files in a scan result of SpecCopy
MaxSel == 2         \* longest selection of SpecCopy
MaxFiles == 2       \* most files in a tree of Spec
MaxLineLen == 3     \* longest input line of Spec

(***************************************************************************)
(* Strings                                                                 *)
(***************************************************************************)
Range(s) == {s[i] : i \in 1..Len(s)}

Strings(alphabet, n) == UNION {[1..k -> alphabet] : k \in 0..n}

Distinct(s) == \A i, j \in 1..Len(s) : i # j => s[i] # s[j]

RECURSIVE Concat(_)
Concat(ss) == IF ss = <<>> THEN <<>> ELSE Head(ss) \o Concat(Tail(ss))

RECURSIVE Sum(_)
Sum(ns) == IF ns = <<>> THEN 0 ELSE Head(ns) + Sum(Tail(ns))

\* str.rfind(c): the last position of c in p, 0 when there is none
\* (positions are 1-based here, so Python's -1 is 0).
rfind(p, c) ==
    LET hits == {i \in 1..Len(p) : p[i] = c}
    IN  IF hits = {} THEN 0 ELSE CHOOSE i \in hits : \A j \in hits : j <= i

\* `sub in file`
contains(file, sub) ==
    \E i \in 0..(Len(file) - Len(sub)) :
        \A k \in 1..Len(sub) : file[i + k] = sub[k]

\* The claimed extension: the name from its final '.', empty without one.
splitext_from_last_dot(p) ==
    IF rfind(p, ".") = 0 THEN <<>> ELSE SubSeq(p, rfind(p, "."), Len(p))

\* os.path.splitext(p)[1]: the name from its final '.', unless only '.'
\* characters precede that '.' in the base name.
splitext(p) ==
    LET sepIndex == rfind(p, "/")
        dotIndex == rfind(p, ".")
    IN  IF /\ dotIndex > sepIndex
           /\ \E k \in (sepIndex + 1)..(dotIndex - 1) : p[k] # "."
        THEN SubSeq(p, dotIndex, Len(p))
        ELSE <<>>

\* os.path.join(subdir, file)
join(subdir, file) == subdir \o <<"/">> \o file

\* os.path.basename(path)
basename(path) == SubSeq(path, rfind(path, "/") + 1, Len(path))

(***************************************************************************)
(* Dicts                                                                   *)
(***************************************************************************)
keys(d) == [i \in 1..Len(d) |-> d[i].ext]

has_key(d, k) == \E i \in 1..Len(d) : d[i].ext = k

\* d[k].append(v), after d[k] = [] when k is new
dict_append(d, k, v) ==
    IF has_key(d, k)
    THEN [i \in 1..Len(d) |->
             IF d[i].ext = k
             THEN [d[i] EXCEPT !.file_list = Append(@, v)]
             ELSE d[i]]
    ELSE Append(d, [ext |-> k, file_list |-> <<v>>])

(***************************************************************************)
(* find_files                                                              *)
(***************************************************************************)
\* os.walk(root_folder), flattened to the (subdir, file) pairs the two loops
\* visit.  With onerror unset os.walk swallows the listing error of a
\* missing or unreadable root and yields nothing.
os_walk(exists, t) ==
    IF exists
    THEN Concat([i \in 1..Len(t) |->
                    [j \in 1..Len(t[i].files) |->
                        [subdir |-> t[i].subdir, file |-> t[i].files[j]]]])
    ELSE <<>>

excluded(file, subs) == \E sub \in subs : contains(file, sub)

RECURSIVE find_files_from(_, _, _)
find_files_from(found_files, visits, subs) ==
    IF visits = <<>> THEN found_files
    ELSE LET v == Head(visits)
         IN  find_files_from(
                 IF excluded(v.file, subs) THEN found_files
                 ELSE dict_append(found_files, splitext(v.file),
                                  join(v.subdir, v.file)),
                 Tail(visits), subs)

find_files(exists, t, subs) == find_files_from(<<>>, os_walk(exists, t), subs)

(***************************************************************************)
(* Directory trees                                                         *)
(***************************************************************************)
RootDir == <<"r">>
SubDir == <<"r", "/", "s">>

Listings(names, n) == {l \in Strings(names, n) : Distinct(l)}

\* A root directory and one subdirectory, top-down, as os.walk lists them.
Trees(names, n) ==
    {<<[subdir |-> RootDir, files |-> l1], [subdir |-> SubDir, files |-> l2]>> :
        <<l1, l2>> \in {p \in Listings(names, n) \X Listings(names, n) :
                           Len(p[1]) + Len(p[2]) <= n}}

\* File names of SpecScan: every name over the alphabet but "." and "..".
Chars == {"t", "T", "."}
Names == Strings(Chars, MaxNameLen) \ {<<>>, <<".">>, <<".", ".">>}
ExcludeSets == {{}, {<<"T", "T">>, <<".", ".", ".">>}}

\* Trees of SpecScan: one file of any name among files of two usual names.
ScanSample == {<<"t", ".", "t">>, <<".", "t">>}
ScanTrees == UNION {Trees(ScanSample \cup {probe}, MaxScanFiles) : probe \in Names}

Idle ==
    /\ line = <<>> /\ selected_extensions = <<>>
    /\ stats = [total_files |-> 0, copied_files |-> 0, failed_files |-> 0]
    /\ total_files = 0 /\ copied_files = 0 /\ ei = 0 /\ fi = 0
    /\ destination_path = [prefix |-> 0, base |-> <<>>]
    /\ clock = 0 /\ dest_exists = TRUE /\ dest = {} /\ log = <<>>
    /\ logged = "" /\ exit_status = -1

InitScan ==
    /\ pc = "scan"
    /\ root_exists \in BOOLEAN
    /\ tree \in ScanTrees
    /\ exclude_substrings \in ExcludeSets
    /\ files = <<>>
    /\ Idle

ScanOnly ==
    /\ pc = "scan"
    /\ files' = find_files(root_exists, tree, exclude_substrings)
    /\ pc' = "scanned"
    /\ UNCHANGED <<root_exists, tree, exclude_substrings, line,
                   selected_extensions, stats, total_files, copied_files, ei,
                   fi, destination_path, clock, dest_exists, dest, log, logged,
                   exit_status>>

NextScan == ScanOnly

SpecScan == InitScan /\ [][NextScan]_vars

(***************************************************************************)
(* copy_files                                                              *)
(***************************************************************************)
\* `extension in selected_extensions`
ext_selected(extension, selected) ==
    \E i \in 1..Len(selected) : selected[i] = extension

\* A denominator that counts a bucket once per occurrence in the selection.
progress_total_per_occurrence(d, selected) ==
    Sum([i \in 1..Len(d) |->
            Len(d[i].file_list)
                * Cardinality({k \in 1..Len(selected) : selected[k] = d[i].ext})])

\* sum(len(file_list) for ext, file_list in files.items() if ext in selected)
progress_total(d, selected) ==
    Sum([i \in 1..Len(d) |->
            IF ext_selected(d[i].ext, selected) THEN Len(d[i].file_list) ELSE 0])

\* A loop over the bucket from its end.
current_file_reversed(d, e, f) ==
    d[e].file_list[Len(d[e].file_list) + 1 - f]

\* `file` of `for file in file_list`, in bucket e at position f
current_file(d, e, f) == d[e].file_list[f]

\* print_progress divides current by total.
print_progress_raises(current, total) == total = 0

\* shutil.copy(file, destination_path): the name holds the file's content,
\* whatever it held before.
shutil_copy(folder, file, name) ==
    {e \in folder : e.name # name} \cup {[name |-> name, content |-> file]}

ZeroStats == [total_files |-> 0, copied_files |-> 0, failed_files |-> 0]

\* An except branch that forgets the failure.
on_failure_uncounted(s) == s

\* stats['failed_files'] += 1
on_failure(s) == [s EXCEPT !.failed_files = @ + 1]

\* stats['copied_files'] += 1
on_success(s) == [s EXCEPT !.copied_files = @ + 1]

\* Lines 67-73, the destination folder being there or created.
CopyEnter ==
    /\ pc = "copy"
    /\ dest_exists' = TRUE
    /\ stats' = ZeroStats
    /\ total_files' = progress_total(files, selected_extensions)
    /\ copied_files' = 0
    /\ ei' = 1
    /\ pc' = "for_ext"
    /\ UNCHANGED <<root_exists, tree, exclude_substrings, line, files,
                   selected_extensions, fi, destination_path, clock, dest, log,
                   logged, exit_status>>

\* Lines 67-68, os.makedirs raising.
MakedirsFails ==
    /\ pc = "copy"
    /\ ~dest_exists
    /\ pc' = "raised"
    /\ UNCHANGED <<root_exists, tree, exclude_substrings, line, files,
                   selected_extensions, stats, total_files, copied_files, ei,
                   fi, destination_path, clock, dest_exists, dest, log, logged,
                   exit_status>>

\* Lines 75-76 and 92: the next item of files.items(), or the return.
ForExtension ==
    /\ pc = "for_ext"
    /\ IF ei > Len(files)
       THEN pc' = "returned" /\ UNCHANGED <<ei, fi>>
       ELSE IF ext_selected(files[ei].ext, selected_extensions)
            THEN pc' = "for_file" /\ fi' = 1 /\ UNCHANGED ei
            ELSE pc' = "for_ext" /\ ei' = ei + 1 /\ UNCHANGED fi
    /\ UNCHANGED <<root_exists, tree, exclude_substrings, line, files,
                   selected_extensions, stats, total_files, copied_files,
                   destination_path, clock, dest_exists, dest, log, logged,
                   exit_status>>

\* Lines 77-81: the next file of the bucket, counted and named after the
\* second the clock shows now.
ForFile ==
    /\ pc = "for_file"
    /\ IF fi > Len(files[ei].file_list)
       THEN /\ pc' = "for_ext"
            /\ ei' = ei + 1
            /\ UNCHANGED <<stats, clock, destination_path>>
       ELSE /\ pc' = "try"
            /\ stats' = [stats EXCEPT !.total_files = @ + 1]
            /\ \E now \in {clock, clock + 1} :
                  /\ clock' = now
                  /\ destination_path' =
                        [prefix |-> now,
                         base |-> basename(current_file(files, ei, fi))]
            /\ UNCHANGED ei
    /\ UNCHANGED <<root_exists, tree, exclude_substrings, line, files,
                   selected_extensions, total_files, copied_files, fi,
                   dest_exists, dest, log, logged, exit_status>>

\* Lines 89-90, after either branch of the try.
AfterAttempt ==
    /\ copied_files' = copied_files + 1
    /\ fi' = fi + 1
    /\ pc' = IF print_progress_raises(copied_files + 1, total_files)
             THEN "raised" ELSE "for_file"
    /\ UNCHANGED <<root_exists, tree, exclude_substrings, line, files,
                   selected_extensions, total_files, ei, destination_path,
                   clock, dest_exists, logged, exit_status>>

\* Lines 83-85.
CopySucceeds ==
    /\ pc = "try"
    /\ dest' = shutil_copy(dest, current_file(files, ei, fi), destination_path)
    /\ stats' = on_success(stats)
    /\ log' = Append(log, [file |-> current_file(files, ei, fi),
                           destination_path |-> destination_path,
                           copied |-> TRUE])
    /\ AfterAttempt

\* A failure that ends the loop.
CopyFailsAndReturns ==
    /\ pc = "try"
    /\ stats' = on_failure(stats)
    /\ log' = Append(log, [file |-> current_file(files, ei, fi),
                           destination_path |-> destination_path,
                           copied |-> FALSE])
    /\ copied_files' = copied_files + 1
    /\ pc' = "returned"
    /\ UNCHANGED <<root_exists, tree, exclude_substrings, line, files,
                   selected_extensions, total_files, ei, fi, destination_path,
                   clock, dest_exists, dest, logged, exit_status>>

\* Lines 86-88: shutil.copy raising, before it opened the destination name
\* or after it had emptied it.
CopyFails ==
    /\ pc = "try"
    /\ dest' \in {dest, shutil_copy(dest, <<>>, destination_path)}
    /\ stats' = on_failure(stats)
    /\ log' = Append(log, [file |-> current_file(files, ei, fi),
                           destination_path |-> destination_path,
                           copied |-> FALSE])
    /\ AfterAttempt

\* Scan results and selections of SpecCopy.
SampleNames == {<<"d", ".", "l">>, <<"a", ".", "t">>}
CopyExts == {<<".", "l">>, <<".", "t">>, <<".", "x">>}

InitCopy ==
    /\ pc = "copy"
    /\ root_exists = TRUE
    /\ tree \in Trees(SampleNames, MaxCopyFiles)
    /\ exclude_substrings = {}
    /\ files = find_files(root_exists, tree, exclude_substrings)
    /\ line = <<>>
    /\ selected_extensions \in Strings(CopyExts, MaxSel)
    /\ stats = ZeroStats
    /\ total_files = 0 /\ copied_files = 0 /\ ei = 0 /\ fi = 0
    /\ destination_path = [prefix |-> 0, base |-> <<>>]
    /\ clock = 0
    /\ dest_exists \in BOOLEAN
    /\ dest = {}
    /\ log = <<>>
    /\ logged = ""
    /\ exit_status = -1

NextCopy ==
    \/ CopyEnter
    \/ MakedirsFails
    \/ ForExtension
    \/ ForFile
    \/ CopySucceeds
    \/ CopyFails

SpecCopy == InitCopy /\ [][NextCopy]_vars

(***************************************************************************)
(* get_user_selected_extensions                                            *)
(***************************************************************************)
LineChars == {"0", "1", "2", ",", " ", "-", "x"}
Digits == {"0", "1", "2"}

DigitValue(c) == CASE c = "0" -> 0 [] c = "1" -> 1 [] c = "2" -> 2

\* str.split(','): the pieces between the commas, one piece at least.
RECURSIVE split(_)
split(s) ==
    LET commas == {i \in 1..Len(s) : s[i] = ","}
    IN  IF commas = {} THEN <<s>>
        ELSE LET c == CHOOSE i \in commas : \A j \in commas : i <= j
             IN  <<SubSeq(s, 1, c - 1)>> \o split(SubSeq(s, c + 1, Len(s)))

\* str.strip(): without the blanks at both ends.
RECURSIVE strip(_)
strip(s) ==
    IF s = <<>> THEN s
    ELSE IF Head(s) = " " THEN strip(Tail(s))
    ELSE IF s[Len(s)] = " " THEN strip(SubSeq(s, 1, Len(s) - 1))
    ELSE s

\* Whether int(tok) returns: a sign at most, then digits, one at least.
is_int(tok) ==
    LET body == IF tok # <<>> /\ Head(tok) = "-" THEN Tail(tok) ELSE tok
    IN  body # <<>> /\ \A i \in 1..Len(body) : body[i] \in Digits

RECURSIVE decimal(_)
decimal(ds) ==
    IF ds = <<>> THEN 0
    ELSE 10 * decimal(SubSeq(ds, 1, Len(ds) - 1)) + DigitValue(ds[Len(ds)])

\* int(tok), for a tok int accepts
int(tok) == IF Head(tok) = "-" THEN 0 - decimal(Tail(tok)) ELSE decimal(tok)

\* Whether seq[idx-1] returns: Python counts a negative position from the end.
in_range(seq, idx) == idx - 1 >= 0 - Len(seq) /\ idx - 1 <= Len(seq) - 1

\* seq[idx-1], for a position in range
item(seq, idx) == IF idx - 1 >= 0 THEN seq[idx] ELSE seq[Len(seq) + idx]

\* Lines 108-112: the selection, or the exception raised instead.
get_user_selected_extensions(available_extensions, input) ==
    LET tokens == [i \in 1..Len(split(input)) |-> strip(split(input)[i])]
    IN  IF \E i \in 1..Len(tokens) : ~is_int(tokens[i])
        THEN [raised |-> "ValueError", value |-> <<>>]
        ELSE LET selected_indices == [i \in 1..Len(tokens) |-> int(tokens[i])]
             IN  IF \E i \in 1..Len(selected_indices) :
                        ~in_range(available_extensions, selected_indices[i])
                 THEN [raised |-> "IndexError", value |-> <<>>]
                 ELSE [raised |-> "",
                       value |-> [i \in 1..Len(selected_indices) |->
                                     item(available_extensions,
                                          selected_indices[i])]]

(***************************************************************************)
(* __main__                                                                *)
(***************************************************************************)
Lines == Strings(LineChars, MaxLineLen)

EmptyTree == <<[subdir |-> RootDir, files |-> <<>>],
               [subdir |-> SubDir, files |-> <<>>]>>

Init ==
    /\ pc = "scan"
    /\ root_exists \in BOOLEAN
    /\ tree \in IF root_exists THEN Trees(SampleNames, MaxFiles) ELSE {EmptyTree}
    /\ exclude_substrings \in {{}, {<<"a">>}}
    /\ files = <<>>
    /\ line = <<>>
    /\ selected_extensions = <<>>
    /\ stats = ZeroStats
    /\ total_files = 0 /\ copied_files = 0 /\ ei = 0 /\ fi = 0
    /\ destination_path = [prefix |-> 0, base |-> <<>>]
    /\ clock = 0
    /\ dest_exists \in BOOLEAN
    /\ dest = {}
    /\ log = <<>>
    /\ logged = ""
    /\ exit_status = -1

\* exit(1) after logging.error(message)
Fail(message) ==
    /\ logged' = message
    /\ exit_status' = 1
    /\ pc' = "exit"

\* Lines 139-143.  find_files raises nothing, so the except branch is not
\* an outcome.
Scan ==
    /\ pc = "scan"
    /\ files' = find_files(root_exists, tree, exclude_substrings)
    /\ pc' = "check_available"
    /\ UNCHANGED <<root_exists, tree, exclude_substrings, line,
                   selected_extensions, stats, total_files, copied_files, ei,
                   fi, destination_path, clock, dest_exists, dest, log, logged,
                   exit_status>>

\* Lines 145-152.
CheckAvailable ==
    /\ pc = "check_available"
    /\ IF keys(files) = <<>>
       THEN Fail("No files found in the specified root folder.")
       ELSE pc' = "select" /\ UNCHANGED <<logged, exit_status>>
    /\ UNCHANGED <<root_exists, tree, exclude_substrings, line, files,
                   selected_extensions, stats, total_files, copied_files, ei,
                   fi, destination_path, clock, dest_exists, dest, log>>

\* Lines 154-161, input() returning any line.
Select ==
    /\ pc = "select"
    /\ \E input \in Lines :
          /\ line' = input
          /\ LET r == get_user_selected_extensions(keys(files), input)
             IN  IF r.raised # ""
                 THEN /\ Fail("Error getting user-selected extensions")
                      /\ UNCHANGED selected_extensions
                 ELSE /\ selected_extensions' = r.value
                      /\ IF r.value = <<>>
                         THEN Fail("No extensions selected for copying.")
                         ELSE pc' = "copy" /\ UNCHANGED <<logged, exit_status>>
    /\ UNCHANGED <<root_exists, tree, exclude_substrings, files, stats,
                   total_files, copied_files, ei, fi, destination_path, clock,
                   dest_exists, dest, log>>

\* Lines 165 and the end of the script.
Finish ==
    /\ pc = "returned"
    /\ logged' = "Statistics"
    /\ exit_status' = 0
    /\ pc' = "exit"
    /\ UNCHANGED <<root_exists, tree, exclude_substrings, line, files,
                   selected_extensions, stats, total_files, copied_files, ei,
                   fi, destination_path, clock, dest_exists, dest, log>>

\* Lines 166-168.
CopyRaised ==
    /\ pc = "raised"
    /\ Fail("Failed to copy files")
    /\ UNCHANGED <<root_exists, tree, exclude_substrings, line, files,
                   selected_extensions, stats, total_files, copied_files, ei,
                   fi, destination_path, clock, dest_exists, dest, log>>

Next ==
    \/ Scan
    \/ CheckAvailable
    \/ Select
    \/ CopyEnter
    \/ MakedirsFails
    \/ ForExtension
    \/ ForFile
    \/ CopySucceeds
    \/ CopyFails
    \/ Finish
    \/ CopyRaised

Spec == Init /\ [][Next]_vars

(***************************************************************************)
(* C9: the buckets of a scan                                               *)
(***************************************************************************)
\* The visits of the walk that the exclusion filter lets through.
Discovered ==
    LET w == os_walk(root_exists, tree)
    IN  {w[i] : i \in {k \in 1..Len(w) : ~excluded(w[k].file, exclude_substrings)}}

\* Where a path sits in a dict: the (bucket, position) pairs holding it.
Places(d, path) ==
    UNION {{<<i, j>> : j \in {k \in 1..Len(d[i].file_list) :
                                d[i].file_list[k] = path}} : i \in 1..Len(d)}

\* Every discovered file sits at exactly one place, and key(file) is the key
\* of its bucket; nothing else is in the dict and no key occurs twice.
BucketsBy(key(_)) ==
    /\ \A v \in Discovered :
          /\ Cardinality(Places(files, join(v.subdir, v.file))) = 1
          /\ \A pl \in Places(files, join(v.subdir, v.file)) :
                files[pl[1]].ext = key(v.file)
    /\ \A i \in 1..Len(files) : \A j \in 1..Len(files[i].file_list) :
          \E v \in Discovered : files[i].file_list[j] = join(v.subdir, v.file)
    /\ Distinct(keys(files))

\* The name from its final '.', provided a character other than '.' comes
\* before that '.'; the empty string otherwise.
SuffixAfterStem(name) ==
    LET dots == {i \in 1..Len(name) :
                    /\ name[i] = "."
                    /\ \A j \in (i + 1)..Len(name) : name[j] # "."
                    /\ \E j \in 1..(i - 1) : name[j] # "."}
    IN  IF dots = {} THEN <<>>
        ELSE SubSeq(name, CHOOSE i \in dots : TRUE, Len(name))

\* C9 as claimed: after a scan every discovered file is in exactly one
\* bucket, exactly once, and the bucket's key is the file name from its final
\* '.' (empty without a '.'), also for names such as '.bashrc'.
C9_KeyIsFromLastDot ==
    pc = "scanned" => BucketsBy(splitext_from_last_dot)

\* C9 as amended: after a scan every discovered file is in exactly one
\* bucket, exactly once, and the bucket's key is the file name from its final
\* '.' when some character other than '.' precedes that '.', and the empty
\* string otherwise (no '.', or only '.' characters before the final one).
C9_KeyIsSplitextSuffix ==
    pc = "scanned" => BucketsBy(SuffixAfterStem)

\* A scan that found a dot-file in the empty-key bucket beside a file in the
\* bucket of its upper-case suffix.
C9_Witness ==
    /\ pc = "scanned"
    /\ \E i, j \in 1..Len(files) :
          /\ files[i].ext = <<>>
          /\ basename(files[i].file_list[1]) = <<".", "t">>
          /\ files[j].ext = <<".", "T">>

(***************************************************************************)
(* Claims about copy_files, under SpecCopy                                 *)
(***************************************************************************)
\* The places of the files whose extension occurs in the selection.
SelectedPlaces ==
    UNION {{<<i, j>> : j \in 1..Len(files[i].file_list)} :
              i \in {k \in 1..Len(files) :
                        files[k].ext \in Range(selected_extensions)}}

Attempted == [k \in 1..Len(log) |-> log[k].file]

\* The buckets of the selected extensions one after the other, in the
\* order of `order`, a sequence of extensions.
RECURSIVE BucketsInOrder(_)
BucketsInOrder(order) ==
    IF order = <<>> THEN <<>>
    ELSE LET hit == {i \in 1..Len(files) : files[i].ext = Head(order)}
         IN  (IF hit = {} \/ Head(order) \notin Range(selected_extensions)
              THEN <<>>
              ELSE files[CHOOSE i \in hit : TRUE].file_list)
             \o BucketsInOrder(Tail(order))

IsPrefix(a, b) == Len(a) <= Len(b) /\ a = SubSeq(b, 1, Len(a))

\* C1: when copy_files has returned, total_files = copied_files +
\* failed_files, whatever the scan result and the selection (duplicates
\* included), and the three counters are 0 for an empty selection.
C1_TotalIsCopiedPlusFailed ==
    pc = "returned" =>
        /\ stats.total_files = stats.copied_files + stats.failed_files
        /\ selected_extensions = <<>> => stats = ZeroStats

\* A return after successes and failures under a selection that names an
\* extension twice.
C1_Witness ==
    /\ pc = "returned"
    /\ ~Distinct(selected_extensions)
    /\ stats.copied_files >= 1
    /\ stats.failed_files >= 1

\* C2 as claimed: when copy_files has returned, any two files of the same
\* base name that were both copied have distinct destination names and are
\* both in the destination folder, whatever the seconds of the two copies.
C2_SameNameFilesBothKept ==
    pc = "returned" =>
        \A a, b \in 1..Len(log) :
            (/\ a # b
             /\ log[a].copied /\ log[b].copied
             /\ log[a].file # log[b].file
             /\ basename(log[a].file) = basename(log[b].file))
            => /\ log[a].destination_path # log[b].destination_path
               /\ \E e \in dest : e.content = log[a].file
               /\ \E e \in dest : e.content = log[b].file

\* C6 as claimed: when copy_files has returned under a selection without
\* duplicates, the files were attempted bucket by bucket in the order of the
\* selection.
C6_AttemptsInSelectionOrder ==
    (pc = "returned" /\ Distinct(selected_extensions))
        => Attempted = BucketsInOrder(selected_extensions)

\* C6 as amended: the files are attempted bucket by bucket in the order of
\* the scan result's keys (first-seen order), the buckets of unselected
\* extensions left out, and inside a bucket in its stored order; the order
\* of the selection has no effect.
C6_AttemptsInScanOrder ==
    /\ IsPrefix(Attempted, BucketsInOrder(keys(files)))
    /\ pc = "returned" => Attempted = BucketsInOrder(keys(files))

\* A return after three attempts over two buckets that the selection names
\* in the reverse of the scan's order.
C6_Witness ==
    /\ pc = "returned"
    /\ Len(log) >= 3
    /\ Len(files) = 2
    /\ selected_extensions = <<files[2].ext, files[1].ext>>

\* C7: a failed copy is counted and the loop goes on: copy_files raises
\* only before the first attempt, and when it has returned every file of the
\* selected extensions was attempted, failed_files and copied_files count the
\* failed and the successful attempts, and a run whose attempts all failed
\* has failed_files = total_files and copied_files = 0.
C7_FailureDoesNotAbort ==
    /\ pc = "raised" => log = <<>>
    /\ pc = "returned" =>
          /\ Len(log) = Cardinality(SelectedPlaces)
          /\ stats.failed_files = Cardinality({k \in 1..Len(log) : ~log[k].copied})
          /\ stats.copied_files = Cardinality({k \in 1..Len(log) : log[k].copied})
          /\ (\A k \in 1..Len(log) : ~log[k].copied)
                => /\ stats.failed_files = stats.total_files
                   /\ stats.copied_files = 0

\* A return after three attempts that all failed.
C7_Witness ==
    /\ pc = "returned"
    /\ Len(log) >= 3
    /\ \A k \in 1..Len(log) : ~log[k].copied
    /\ stats.failed_files = stats.total_files

(***************************************************************************)
(* Claims about the driver, under Spec                                     *)
(***************************************************************************)
\* input() has returned.
LineRead ==
    /\ pc \notin {"scan", "check_available", "select"}
    /\ logged # "No files found in the specified root folder."

Tokens(input) == [i \in 1..Len(split(input)) |-> strip(split(input)[i])]

AllInts(input) == \A i \in 1..Len(Tokens(input)) : is_int(Tokens(input)[i])

\* Every token is an integer and one of them is outside 1..n.
OutOfBounds(input, n) ==
    /\ AllInts(input)
    /\ \E i \in 1..Len(Tokens(input)) : int(Tokens(input)[i]) \notin 1..n

FailedBeforeCopy == pc = "exit" /\ exit_status = 1 /\ log = <<>> /\ dest = {}

\* C3 as claimed: once a line of integers with an index outside
\* 1..len(available) (0, or one above the length) is read, the driver exits
\* with status 1 through the selection-error branch and nothing is copied.
C3_OutOfRangeIndexFails ==
    (LineRead /\ OutOfBounds(line, Len(files)))
        => /\ FailedBeforeCopy
           /\ logged = "Error getting user-selected extensions"

\* C4 as claimed: the exit status is 0 exactly when the copy phase was
\* completed; when the root cannot be scanned, the scan finds nothing or the
\* selection is empty or invalid (not an integer, or outside
\* 1..len(available)), the driver exits with status 1 before any copy.
C4_ExitStatusByStage ==
    /\ exit_status = 0 <=> (pc = "exit" /\ logged = "Statistics")
    /\ pc = "exit" => exit_status \in {0, 1}
    /\ (pc \notin {"scan", "check_available"} /\ (~root_exists \/ files = <<>>))
          => FailedBeforeCopy
    /\ (LineRead /\ (~AllInts(line) \/ OutOfBounds(line, Len(files))))
          => FailedBeforeCopy

\* Occurrences of files[i].ext in the selection.
Occurrences(i) ==
    Cardinality({k \in 1..Len(selected_extensions) :
                    selected_extensions[k] = files[i].ext})

Attempts(path) == Cardinality({k \in 1..Len(log) : log[k].file = path})

CopyCompleted == pc = "exit" /\ exit_status = 0

\* C5 as claimed: after a completed copy, each file of an extension that
\* the selection holds k times was attempted k times, and the progress total
\* and total_files count the bucket k times.
C5_CopiedOncePerOccurrence ==
    CopyCompleted =>
        /\ \A i \in 1..Len(files) : \A j \in 1..Len(files[i].file_list) :
              Attempts(files[i].file_list[j]) = Occurrences(i)
        /\ total_files = Sum([i \in 1..Len(files) |->
                                 Len(files[i].file_list) * Occurrences(i)])
        /\ stats.total_files = total_files

\* C5 as amended: the selection keeps one extension per index entered,
\* repeats included, but after a completed copy each file of an extension
\* that the selection holds k >= 1 times was attempted once, and the
\* progress total and total_files count its bucket once.
C5_CopiedOnceWhateverOccurrences ==
    CopyCompleted =>
        /\ Len(selected_extensions) = Len(split(line))
        /\ \A i \in 1..Len(files) : \A j \in 1..Len(files[i].file_list) :
              Attempts(files[i].file_list[j]) = IF Occurrences(i) >= 1 THEN 1 ELSE 0
        /\ total_files = Cardinality(SelectedPlaces)
        /\ stats.total_files = total_files

\* A completed copy of a bucket of two files that the selection names twice.
C5_Witness ==
    /\ CopyCompleted
    /\ \E i \in 1..Len(files) :
          /\ Occurrences(i) = 2
          /\ Len(files[i].file_list) = 2
    /\ Len(log) = 2

\* C8 as claimed: for a root that cannot be listed find_files returns
\* nothing, so the driver leaves the scan only through its 'Failed to scan
\* directories' exit.
C8_MissingRootRaises ==
    ~root_exists =>
        /\ pc \in {"scan", "exit"}
        /\ pc = "exit" => logged = "Failed to scan directories"

\* C10 as claimed: once a line that is empty after trimming is read, the
\* driver exits with status 1 through its 'No extensions selected for
\* copying.' branch and nothing is copied.
C10_EmptyLineSelectsNothing ==
    (LineRead /\ strip(line) = <<>>)
        => /\ FailedBeforeCopy
           /\ logged = "No extensions selected for copying."

====
